---- MODULE Spec2Model ----
(***************************************************************************)
(* Conversation synchronisation engine of the Tranquil frontend.           *)
(*                                                                         *)
(* The repository holds divergent implementations of the same provider:    *)
(*   "ctx"   frontend/src/contexts/ConversationContext.tsx                 *)
(*   "abort" unnamed/part_003 (AbortController and timeouts)               *)
(*   "basic" unnamed/part_004 (followed through its initialisation only)   *)
(* The first two call the API client of unnamed/part_002, the third the    *)
(* one of frontend/src/lib/api/conversation.ts.  The variable `variant`    *)
(* says which provider is mounted; it never changes.                       *)
(*                                                                         *)
(* Every awaited API call is one entry of `calls`.  A step of the model is *)
(* one run-to-completion block of JavaScript: the synchronous part of a    *)
(* handler up to its await, or the whole continuation that runs when the   *)
(* awaited promise settles (catch / finally and the continuation of the    *)
(* handler that awaited it included).                                      *)
(***************************************************************************)
EXTENDS Integers, Sequences, FiniteSets, TLC

\* ------------------------------------------------------------------ bounds
MaxCalls == 4        \* API calls issued in one behaviour
MaxPages == 2        \* pages the server splits one message history into
MaxPageLen == 2      \* messages on one page
MaxCreates == 1      \* calls of createNewConversation(initialMessage)
MaxToggles == 2      \* calls of toggleShowArchived

\* ------------------------------------------------------- program constants
SwitchTimeout == 10  \* setTimeout(..., 10000), in seconds
SendTimeout == 30    \* setTimeout(..., 30000), in seconds

VARIABLES
  variant,               \* which provider implementation is mounted
  mounted,               \* the provider has not been unmounted
  fetchRejectsWithReason,\* runtime: abort(reason) rejects fetch with reason
  conversations, currentConversation, messages,
  isLoading, isSending, error, showArchived,
  abortControllerRef,    \* index in calls of the controller held, 0 = null
  calls,                 \* every API call awaited so far
  clock,                 \* successive Date.now() readings
  srvConvs, srvMsgs,     \* the remote Conversation API's data
  \* one run of getMessages of the API client
  pages,                 \* the pages the server answers with, in order
  nextUrl,               \* index in pages of the next page, 0 = null
  allMessages,
  getMessages_result     \* what the run has handed to its caller

getMessages_vars == <<pages, nextUrl, allMessages, getMessages_result>>

vars == <<variant, mounted, fetchRejectsWithReason, conversations, currentConversation,
          messages, isLoading, isSending, error, showArchived,
          abortControllerRef, calls, clock, srvConvs, srvMsgs,
          pages, nextUrl, allMessages, getMessages_result>>

Variants == {"ctx", "abort", "basic"}

\* ------------------------------------------------------------ data values
Conv(id, rev) == [id |-> id, rev |-> rev, is_archived |-> FALSE]
null == Conv("null", 0)
noError == "null"

MsgId(pre, n) == [pre |-> pre, n |-> n]
\* conv is the conversation the message was written for; the code keeps no
\* such field on fabricated messages, the properties read it.
Msg(id, role, content, conv) ==
  [id |-> id, role |-> role, content |-> content, conv |-> conv]
noId == MsgId("none", 0)
\* an absent user_message / assistant_message of a send response
undefined == Msg(MsgId("undefined", 0), "undefined", "undefined", "undefined")

\* msg.id.startsWith('temp-')
startsWithTemp(id) == id.pre \in {"temp-user-", "temp-assistant-"}
typingId == MsgId("typing-indicator", 0)

\* prev.map(conv => conv.id === c.id ? c : conv)
mapKeep(list, id, c) == list
mapReplace(list, id, c) ==
  [i \in 1..Len(list) |-> IF list[i].id = id THEN c ELSE list[i]]

\* ------------------------------------------------------------- the server
InitialServerLists == { <<>>, <<Conv("A", 0), Conv("B", 0)>> }
\* accounts that hold an archived conversation
ArchivedServerLists ==
  { <<[Conv("Z", 0) EXCEPT !.is_archived = TRUE]>>,
    <<Conv("A", 0), [Conv("Z", 0) EXCEPT !.is_archived = TRUE]>> }
\* the ids the server gives to the conversations it creates, in order
newConversationIds == <<"N1", "N2", "N3", "N4", "N5", "N6", "N7", "N8">>
ConversationIds ==
  {"A", "B", "Z"} \cup {newConversationIds[i] : i \in 1..Len(newConversationIds)}
InitialServerMsgs ==
  [c \in ConversationIds |->
     IF c = "A" THEN <<Msg(MsgId("srv", 1), "user", "text", "A"),
                       Msg(MsgId("srv", 2), "assistant", "reply", "A")>>
     ELSE IF c = "B" THEN <<Msg(MsgId("srv", 3), "user", "text", "B")>>
     ELSE <<>>]

srvFind(id) == CHOOSE c \in {srvConvs[i] : i \in 1..Len(srvConvs)} : c.id = id
srvHas(id) == \E i \in 1..Len(srvConvs) : srvConvs[i].id = id

\* ------------------------------------------------------------- API calls
NewCall(kind, id, caller, ctl, timer, uid, snap) ==
  [kind |-> kind, id |-> id, caller |-> caller, st |-> "pending",
   ctl |-> ctl, aborted |-> FALSE, abortedBy |-> "none", timer |-> timer,
   userMessageId |-> uid,
   content |-> "",  \* the text of a sendMessage request
   archived |-> showArchived,  \* ?archived= of a getConversations request
   \* what the handler's closure holds: the state of the render it was
   \* created in
   closure |-> [currentConversation |-> snap.currentConversation,
                conversations |-> snap.conversations],
   parent |-> 0,   \* the call whose continuation awaits this one, 0 = none
   \* history, read by the properties only
   outcome |-> "none", threw |-> FALSE, raisedError |-> FALSE,
   wrote |-> FALSE, mutated |-> FALSE, stale |-> FALSE, alone |-> TRUE,
   before |-> snap, after |-> snap]

\* A newer call of the same kind has been issued: the pending ones are stale.
supersede(cs, kind) ==
  [i \in 1..Len(cs) |->
     IF cs[i].st = "pending" /\ cs[i].kind = kind
     THEN [cs[i] EXCEPT !.stale = TRUE] ELSE cs[i]]

Snapshot(w) == [messages |-> w.messages,
                currentConversation |-> w.currentConversation,
                conversations |-> w.conversations,
                error |-> w.error, isSending |-> w.isSending]

\* The provider's state as one value, so that handlers compose.
World == [conversations |-> conversations,
          currentConversation |-> currentConversation,
          messages |-> messages, isLoading |-> isLoading,
          isSending |-> isSending, error |-> error,
          abortControllerRef |-> abortControllerRef,
          calls |-> calls, clock |-> clock]

\* K holds the calls the step is about; every other pending call has been
\* overlapped by it.
Commit(w, K) ==
  /\ conversations' = w.conversations
  /\ currentConversation' = w.currentConversation
  /\ messages' = w.messages
  /\ isLoading' = w.isLoading
  /\ isSending' = w.isSending
  /\ error' = w.error
  /\ abortControllerRef' = w.abortControllerRef
  /\ clock' = w.clock
  /\ calls' = [i \in 1..Len(w.calls) |->
                 IF i \notin K /\ w.calls[i].st = "pending"
                 THEN [w.calls[i] EXCEPT !.alone = FALSE]
                 ELSE w.calls[i]]
  /\ UNCHANGED <<mounted, getMessages_vars>>

\* the conversations the list component renders, one row each
ListedIds == {conversations[i].id : i \in 1..Len(conversations)}

InFlight(k) == k \in 1..Len(calls) /\ calls[k].st = "pending"
\* the continuation of call k has a mounted provider to run in
Pending(k) == mounted /\ InFlight(k)
\* An aborted fetch rejects in a microtask: its continuation runs before any
\* other task (timer, response, user event).
AbortPending == \E k \in 1..Len(calls) : Pending(k) /\ calls[k].aborted
\* The user calls a handler (those of part_004 are not modelled).
CanCall ==
  /\ mounted /\ variant # "basic"
  /\ Len(calls) < MaxCalls /\ ~AbortPending

\* ---------------------------------------------------------------- errors
\* Values a rejected promise carries: an Error thrown by the API client, the
\* DOMException of abort(), or the string handed to abort(reason).
NetworkError == "Error"
AbortError == "AbortError"
TimeoutReason == "Request timed out"
\* err.name
errName(err) ==
  IF err = AbortError THEN "AbortError"
  ELSE IF err = NetworkError THEN "Error"
  ELSE "undefined"

\* What the aborted fetch of call c rejects with.
rejectionOf(c) ==
  IF c.abortedBy = "timeout" /\ fetchRejectsWithReason
  THEN TimeoutReason ELSE AbortError

\* controller.abort() on the controller the ref holds
abortHeld(cs, ref, by) ==
  IF ref = 0 \/ cs[ref].aborted THEN cs
  ELSE [cs EXCEPT ![ref].aborted = TRUE, ![ref].abortedBy = by]

\* Close the record of call k once its continuation has run.  A timer that
\* is still armed then (switchConversation clears it on success only) can
\* only abort the controller of a finished request: it is kept as due, and
\* the time it has left is no longer counted.
Finish(w, k, outcome, threw, raised) ==
  [w EXCEPT !.calls[k].st = "settled", !.calls[k].outcome = outcome,
            !.calls[k].threw = threw, !.calls[k].raisedError = raised,
            !.calls[k].wrote = \/ w.currentConversation # currentConversation
                               \/ w.messages # messages,
            !.calls[k].mutated = \/ w.currentConversation # currentConversation
                                 \/ w.messages # messages
                                 \/ w.conversations # conversations
                                 \/ w.error # error
                                 \/ w.isLoading # isLoading
                                 \/ w.isSending # isSending,
            !.calls[k].timer = IF @ >= 0 THEN 0 ELSE @,
            !.calls[k].after = Snapshot(w)]

\* Why the fetch of call c failed, for the record.
causeOf(c, err) ==
  IF err = NetworkError THEN "error"
  ELSE IF c.abortedBy = "timeout" THEN "timeout" ELSE "superseded"

\* ------------------------------------------- initialisation (both variants)
\* initializeConversation and createNewConversation read the same in both
\* providers (part_003 lines 71-143).
\* catch (err) { setError('Failed to delete conversation'); throw err } of
\* deleteConversation, and the same of archiveConversation(id, true)
deleteConversation_catch(w) ==
  [w EXCEPT !.error = "Failed to delete conversation"]
archiveConversation_catch(w) ==
  [w EXCEPT !.error = "Failed to archive conversation"]

\* The rest of the handler that awaited switchConversation or
\* createNewConversation, once that settled: catch and finally of
\* initializeConversation, catch of deleteConversation or archiveConversation.
initializeConversation_finally(w, caller, thrown) ==
  IF caller = "deleteConversation"
  THEN IF thrown THEN deleteConversation_catch(w) ELSE w
  ELSE IF caller = "archiveConversation"
  THEN IF thrown THEN archiveConversation_catch(w) ELSE w
  ELSE IF caller # "initializeConversation" THEN w
  ELSE [w EXCEPT !.error = IF thrown THEN "Failed to initialize conversations"
                           ELSE @,
                 !.isLoading = FALSE]

\* The call just appended to w is awaited by the continuation of call k and
\* runs in the closure of k's handler.
awaitedBy(w, k) ==
  [w EXCEPT !.calls[Len(w.calls)].parent = k,
            !.calls[Len(w.calls)].closure = w.calls[k].closure]

\* createNewConversation() up to its await
createNewConversation(w, caller) ==
  [w EXCEPT !.isLoading = TRUE,
            !.calls = Append(@, NewCall("createConversation", "", caller,
                                        FALSE, -1, noId, Snapshot(w)))]

ctx_switchConversation(w, id, caller) ==
  [w EXCEPT !.isLoading = TRUE,
            !.calls = Append(supersede(@, "getConversation"),
                             NewCall("getConversation", id, caller,
                                     FALSE, -1, noId, Snapshot(w)))]

abort_switchConversation(w, id, caller) ==
  LET cs == abortHeld(w.calls, w.abortControllerRef, "switchConversation")
  IN [w EXCEPT !.abortControllerRef = Len(cs) + 1,
               !.isLoading = TRUE,
               !.error = noError,
               !.calls = Append(supersede(cs, "getConversation"),
                                NewCall("getConversation", id, caller,
                                            TRUE, SwitchTimeout, noId,
                                            Snapshot(w)))]

switchConversation(w, id, caller) ==
  IF variant = "ctx" THEN ctx_switchConversation(w, id, caller)
  ELSE abort_switchConversation(w, id, caller)

\* The effect runs once, on mount.
initializeConversation ==
  /\ calls = <<>>
  /\ Commit([World EXCEPT !.isLoading = TRUE,
                          !.calls = Append(@, NewCall("getConversations", "",
                                     "initializeConversation", FALSE, -1,
                                     noId, Snapshot(World)))], {1})
  /\ UNCHANGED <<variant, fetchRejectsWithReason, showArchived, srvConvs,
                 srvMsgs>>

\* getConversations of the API client: the list, or [] on any failure.
getConversations(archived, ok) ==
  IF ok THEN SelectSeq(srvConvs, LAMBDA c : c.is_archived = archived)
  ELSE <<>>

\* loadConversations returned: the rest of initializeConversation up to its
\* next await.
loadConversations_settled(k, ok) ==
  /\ variant # "basic"
  /\ Pending(k) /\ ~AbortPending
  /\ calls[k].kind = "getConversations"
  /\ calls[k].caller = "initializeConversation"
  /\ LET data == getConversations(calls[k].archived, ok)
         w1 == Finish([World EXCEPT !.conversations = data], k,
                      IF ok THEN "ok" ELSE "error", FALSE, FALSE)
     IN Commit(awaitedBy(IF Len(data) > 0
                         THEN switchConversation(w1, data[1].id, calls[k].caller)
                         ELSE createNewConversation(w1, calls[k].caller), k),
               {k, Len(calls) + 1})
  /\ UNCHANGED <<variant, fetchRejectsWithReason, showArchived, srvConvs,
                 srvMsgs>>

\* the id of the next conversation the server creates
newConversationId ==
  newConversationIds[1 + Cardinality({j \in 1..Len(calls) :
                                        /\ calls[j].kind = "createConversation"
                                        /\ calls[j].outcome = "ok"})]

\* The New Chat button: handleNewConversation of ConversationList.tsx calls
\* createNewConversation() and, when that has returned, switchConversation
\* with the new conversation's id.  The button is disabled while isLoading
\* is set and the list is empty.
handleNewConversation ==
  /\ CanCall
  /\ ~(isLoading /\ conversations = <<>>)
  /\ Commit(createNewConversation(World, "handleNewConversation"),
            {Len(calls) + 1})
  /\ UNCHANGED <<variant, fetchRejectsWithReason, showArchived, srvConvs,
                 srvMsgs>>

\* prev => [newConversation, ...prev]
atTail(newConversation, prev) == prev \o <<newConversation>>
atHead(newConversation, prev) == <<newConversation>> \o prev

createNewConversation_resolved(k) ==
  /\ Pending(k) /\ ~AbortPending
  /\ calls[k].kind = "createConversation" /\ calls[k].content = ""
  /\ LET newConversation == Conv(newConversationId, 0)
         w1 == [World EXCEPT !.conversations = atHead(newConversation, @),
                             !.currentConversation = newConversation,
                             !.messages = <<>>,
                             !.isLoading = FALSE]
         w2 == initializeConversation_finally(w1, calls[k].caller, FALSE)
         w3 == Finish([w2 EXCEPT !.calls[k].id = newConversation.id],
                      k, "ok", FALSE, FALSE)
     IN /\ Commit(IF calls[k].caller = "handleNewConversation"
                  THEN awaitedBy(switchConversation(w3, newConversation.id,
                                                    calls[k].caller), k)
                  ELSE w3, {k, Len(calls) + 1})
        /\ srvConvs' = <<newConversation>> \o srvConvs
  /\ UNCHANGED <<variant, fetchRejectsWithReason, showArchived, srvMsgs>>

createNewConversation_rejected(k) ==
  /\ Pending(k) /\ ~AbortPending
  /\ calls[k].kind = "createConversation"
  /\ LET w1 == [World EXCEPT !.error = "Failed to create conversation",
                             !.isLoading = FALSE]
         w2 == initializeConversation_finally(w1, calls[k].caller, TRUE)
     IN Commit(Finish(w2, k, "error", TRUE, TRUE), {k})
  /\ UNCHANGED <<variant, fetchRejectsWithReason, showArchived, srvConvs,
                 srvMsgs>>

\* ---------------------------------------------- initialisation (basic)
\* part_004: the effect loadConversations, its switchConversation, and the
\* effect loadMessages that runs when currentConversation?.id has changed.
basic_switchConversation(w, id, caller) ==
  [w EXCEPT !.isLoading = TRUE,
            !.calls = Append(@, NewCall("getConversation", id, caller,
                                        FALSE, -1, noId, Snapshot(w)))]

\* getConversations of lib/api/conversation.ts returned
basic_loadConversations_resolved(k) ==
  /\ variant = "basic" /\ Pending(k)
  /\ calls[k].kind = "getConversations"
  /\ LET data == getConversations(calls[k].archived, TRUE)
         w1 == Finish([World EXCEPT !.conversations = data], k, "ok",
                      FALSE, FALSE)
     IN Commit(IF calls[k].closure.currentConversation = null /\ Len(data) > 0
               THEN awaitedBy(basic_switchConversation(w1, data[1].id,
                                                       calls[k].caller), k)
               ELSE [w1 EXCEPT !.isLoading = FALSE],
               {k, Len(calls) + 1})
  /\ UNCHANGED <<variant, fetchRejectsWithReason, showArchived, srvConvs,
                 srvMsgs>>

\* if (!response.ok) throw new Error('Failed to fetch conversations')
basic_loadConversations_rejected(k) ==
  /\ variant = "basic" /\ Pending(k)
  /\ calls[k].kind = "getConversations"
  /\ Commit(Finish([World EXCEPT !.error = "Failed to load conversations",
                                 !.isLoading = FALSE],
                   k, "error", TRUE, TRUE), {k})
  /\ UNCHANGED <<variant, fetchRejectsWithReason, showArchived, srvConvs,
                 srvMsgs>>

\* switchConversation resolved, loadConversations ended, and the effect
\* loadMessages ran up to its await
basic_switchConversation_resolved(k) ==
  /\ variant = "basic" /\ Pending(k)
  /\ calls[k].kind = "getConversation" /\ srvHas(calls[k].id)
  /\ LET r == [conversation |-> srvFind(calls[k].id),
               messages |-> srvMsgs[calls[k].id]]
         w1 == Finish([World EXCEPT !.currentConversation = r.conversation,
                                    !.messages = r.messages,
                                    !.isLoading = FALSE],
                      k, "ok", FALSE, FALSE)
     IN Commit(IF r.conversation.id = currentConversation.id THEN w1
               ELSE [w1 EXCEPT !.isLoading = TRUE,
                               !.calls = Append(@,
                                  NewCall("getMessages", calls[k].id,
                                          "loadMessages", FALSE, -1, noId,
                                          Snapshot(w1)))],
               {k, Len(calls) + 1})
  /\ UNCHANGED <<variant, fetchRejectsWithReason, showArchived, srvConvs,
                 srvMsgs>>

basic_switchConversation_rejected(k) ==
  /\ variant = "basic" /\ Pending(k)
  /\ calls[k].kind = "getConversation"
  /\ Commit(Finish([World EXCEPT !.error = "Failed to load conversations",
                                 !.isLoading = FALSE],
                   k, "error", TRUE, TRUE), {k})
  /\ UNCHANGED <<variant, fetchRejectsWithReason, showArchived, srvConvs,
                 srvMsgs>>

basic_loadMessages_resolved(k) ==
  /\ variant = "basic" /\ Pending(k)
  /\ calls[k].kind = "getMessages"
  /\ Commit(Finish([World EXCEPT !.messages = srvMsgs[calls[k].id],
                                 !.isLoading = FALSE],
                   k, "ok", FALSE, FALSE), {k})
  /\ UNCHANGED <<variant, fetchRejectsWithReason, showArchived, srvConvs,
                 srvMsgs>>

basic_loadMessages_rejected(k) ==
  /\ variant = "basic" /\ Pending(k)
  /\ calls[k].kind = "getMessages"
  /\ Commit(Finish([World EXCEPT !.error = "Failed to load messages",
                                 !.isLoading = FALSE],
                   k, "error", FALSE, TRUE), {k})
  /\ UNCHANGED <<variant, fetchRejectsWithReason, showArchived, srvConvs,
                 srvMsgs>>

\* ------------------------------------------- deleteConversation (both)
\* deleteConversation reads the same in both providers (part_003 237-263).
deleteConversation_call(id) ==
  /\ CanCall
  /\ id \in ListedIds
  /\ Commit([World EXCEPT !.calls = Append(@,
                NewCall("deleteConversation", id, "ui", FALSE, -1, noId,
                        Snapshot(World)))], {Len(calls) + 1})
  /\ UNCHANGED <<variant, fetchRejectsWithReason, showArchived, srvConvs,
                 srvMsgs>>

\* The server has deleted the conversation: the handler goes on to await
\* getConversations(showArchived, token).
deleteConversation_resolved(k) ==
  /\ Pending(k) /\ ~AbortPending
  /\ calls[k].kind = "deleteConversation" /\ srvHas(calls[k].id)
  /\ LET w1 == Finish(World, k, "ok", FALSE, FALSE)
         w2 == [w1 EXCEPT !.calls = Append(@,
                   NewCall("getConversations", calls[k].id,
                           "deleteConversation", FALSE, -1, noId,
                           Snapshot(w1)))]
     IN Commit(awaitedBy(w2, k), {k, Len(calls) + 1})
  /\ srvConvs' = SelectSeq(srvConvs, LAMBDA c : c.id # calls[k].id)
  /\ UNCHANGED <<variant, fetchRejectsWithReason, showArchived, srvMsgs>>

deleteConversation_rejected(k) ==
  /\ Pending(k) /\ ~AbortPending
  /\ calls[k].kind = "deleteConversation"
  /\ Commit(Finish(deleteConversation_catch(World), k, "error", TRUE, TRUE),
            {k})
  /\ UNCHANGED <<variant, fetchRejectsWithReason, showArchived, srvConvs,
                 srvMsgs>>

\* updatedConversations.find(conv => !conv.is_archived || showArchived)
find_otherConversation(updatedConversations) ==
  LET shown == SelectSeq(updatedConversations,
                         LAMBDA conv : ~conv.is_archived \/ showArchived)
  IN IF Len(shown) = 0 THEN null ELSE shown[1]

\* getConversations returned: the rest of deleteConversation up to its next
\* await.  currentConversation is the one of the closure.
deleteConversation_listed(k, ok) ==
  /\ Pending(k) /\ ~AbortPending
  /\ calls[k].kind = "getConversations"
  /\ calls[k].caller = "deleteConversation"
  /\ LET updatedConversations == getConversations(calls[k].archived, ok)
         otherConversation == find_otherConversation(updatedConversations)
         w1 == Finish([World EXCEPT !.conversations = updatedConversations],
                      k, IF ok THEN "ok" ELSE "error", FALSE, FALSE)
     IN Commit(IF calls[k].closure.currentConversation.id # calls[k].id
               THEN w1
               ELSE awaitedBy(IF otherConversation # null
                              THEN switchConversation(w1, otherConversation.id,
                                                      calls[k].caller)
                              ELSE createNewConversation(w1, calls[k].caller),
                              k),
               {k, Len(calls) + 1})
  /\ UNCHANGED <<variant, fetchRejectsWithReason, showArchived, srvConvs,
                 srvMsgs>>

\* ------------------------------------ updateCurrentConversation (both)
\* updateCurrentConversation reads the same in both providers (part_003
\* 213-235).  It sets nothing before its await.
updateCurrentConversation_call ==
  /\ CanCall
  /\ currentConversation # null
  /\ Commit([World EXCEPT !.calls = Append(@,
                NewCall("updateConversation", currentConversation.id, "ui",
                        FALSE, -1, noId, Snapshot(World)))],
            {Len(calls) + 1})
  /\ UNCHANGED <<variant, fetchRejectsWithReason, showArchived, srvConvs,
                 srvMsgs>>

\* The server has applied the patch and answers with the conversation as it
\* now is.
updateCurrentConversation_resolved(k) ==
  /\ Pending(k) /\ ~AbortPending
  /\ calls[k].kind = "updateConversation" /\ srvHas(calls[k].id)
  /\ LET patched == [srvFind(calls[k].id) EXCEPT !.rev = @ + 1]
         updatedConversation == patched
         w1 == [World EXCEPT
                  !.currentConversation = updatedConversation,
                  !.conversations =
                     mapReplace(@, updatedConversation.id, updatedConversation)]
     IN /\ Commit(Finish(w1, k, "ok", FALSE, FALSE), {k})
        /\ srvConvs' = mapReplace(srvConvs, calls[k].id, patched)
  /\ UNCHANGED <<variant, fetchRejectsWithReason, showArchived, srvMsgs>>

updateCurrentConversation_rejected(k) ==
  /\ Pending(k) /\ ~AbortPending
  /\ calls[k].kind = "updateConversation"
  /\ Commit(Finish([World EXCEPT !.error = "Failed to update conversation"],
                   k, "error", TRUE, TRUE), {k})
  /\ UNCHANGED <<variant, fetchRejectsWithReason, showArchived, srvConvs,
                 srvMsgs>>

\* ------------------------------------------ archiveConversation (both)
\* archiveConversation reads the same in both providers (part_003 265-299).
\* The model calls it with archive = true only.
archiveConversation_call(id) ==
  /\ CanCall
  /\ \E i \in 1..Len(conversations) :
        conversations[i].id = id /\ ~conversations[i].is_archived
  /\ Commit([World EXCEPT !.calls = Append(@,
                NewCall("archiveConversation", id, "ui", FALSE, -1, noId,
                        Snapshot(World)))], {Len(calls) + 1})
  /\ UNCHANGED <<variant, fetchRejectsWithReason, showArchived, srvConvs,
                 srvMsgs>>

\* prev.map(conv => conv.id === conversationId
\*                    ? { ...conv, is_archived: archive } : conv)
setArchived(list, conversationId, archive) ==
  [i \in 1..Len(list) |->
     IF list[i].id = conversationId
     THEN [list[i] EXCEPT !.is_archived = archive] ELSE list[i]]

\* updateConversation(id, { is_archived: true }) returned: the rest of
\* archiveConversation up to its next await.  currentConversation and
\* conversations are those of the closure.
archiveConversation_resolved(k) ==
  /\ Pending(k) /\ ~AbortPending
  /\ calls[k].kind = "archiveConversation" /\ srvHas(calls[k].id)
  /\ LET conversationId == calls[k].id
         otherConversations ==
           SelectSeq(calls[k].closure.conversations,
                     LAMBDA conv : conv.id # conversationId
                                   /\ ~conv.is_archived)
         w1 == Finish([World EXCEPT !.conversations =
                         setArchived(@, conversationId, TRUE)],
                      k, "ok", FALSE, FALSE)
     IN Commit(IF calls[k].closure.currentConversation.id # conversationId
               THEN w1
               ELSE awaitedBy(IF Len(otherConversations) > 0
                              THEN switchConversation(w1,
                                     otherConversations[1].id,
                                     "archiveConversation")
                              ELSE createNewConversation(w1,
                                     "archiveConversation"), k),
               {k, Len(calls) + 1})
  /\ srvConvs' = setArchived(srvConvs, calls[k].id, TRUE)
  /\ UNCHANGED <<variant, fetchRejectsWithReason, showArchived, srvMsgs>>

archiveConversation_rejected(k) ==
  /\ Pending(k) /\ ~AbortPending
  /\ calls[k].kind = "archiveConversation"
  /\ Commit(Finish(archiveConversation_catch(World), k, "error", TRUE, TRUE),
            {k})
  /\ UNCHANGED <<variant, fetchRejectsWithReason, showArchived, srvConvs,
                 srvMsgs>>

\* ------------------------------------------------ switchConversation (ctx)
\* call k is the getConversation request of a switchConversation (the
\* client's createConversation calls getConversation too)
bySwitchConversation(k) ==
  calls[k].kind = "getConversation" /\ calls[k].caller # "createConversation"

\* what getConversation answers for id
getConversation(id) == [conversation |-> srvFind(id), messages |-> srvMsgs[id]]

ctx_switchConversation_call(id) ==
  /\ variant = "ctx" /\ CanCall
  /\ id \in ListedIds
  /\ Commit(ctx_switchConversation(World, id, "ui"), {Len(calls) + 1})
  /\ UNCHANGED <<variant, fetchRejectsWithReason, showArchived, srvConvs,
                 srvMsgs>>

ctx_switchConversation_resolved(k) ==
  /\ variant = "ctx" /\ Pending(k) /\ ~AbortPending
  /\ bySwitchConversation(k) /\ srvHas(calls[k].id)
  /\ LET r == getConversation(calls[k].id)
         w1 == [World EXCEPT
                  !.currentConversation = r.conversation,
                  !.messages = r.messages,
                  !.conversations = mapReplace(@, calls[k].id, r.conversation),
                  !.isLoading = FALSE]
         w2 == initializeConversation_finally(w1, calls[k].caller, FALSE)
     IN Commit(Finish(w2, k, "ok", FALSE, FALSE), {k})
  /\ UNCHANGED <<variant, fetchRejectsWithReason, showArchived, srvConvs,
                 srvMsgs>>

ctx_switchConversation_rejected(k) ==
  /\ variant = "ctx" /\ Pending(k) /\ ~AbortPending
  /\ bySwitchConversation(k)
  /\ LET w1 == [World EXCEPT !.error = "Failed to switch conversation",
                             !.isLoading = FALSE]
         w2 == initializeConversation_finally(w1, calls[k].caller, TRUE)
     IN Commit(Finish(w2, k, "error", TRUE, TRUE), {k})
  /\ UNCHANGED <<variant, fetchRejectsWithReason, showArchived, srvConvs,
                 srvMsgs>>

\* ---------------------------------------------- switchConversation (abort)
abort_switchConversation_call(id) ==
  /\ variant = "abort" /\ CanCall
  /\ id \in ListedIds
  /\ Commit(abort_switchConversation(World, id, "ui"), {Len(calls) + 1})
  /\ UNCHANGED <<variant, fetchRejectsWithReason, showArchived, srvConvs,
                 srvMsgs>>

\* finally { if (abortControllerRef.current === controller) setIsLoading(false) }
abort_switchConversation_noFinally(w, k) == w
abort_switchConversation_finally(w, k) ==
  IF w.abortControllerRef = k THEN [w EXCEPT !.isLoading = FALSE] ELSE w

abort_switchConversation_resolved(k) ==
  /\ variant = "abort" /\ Pending(k) /\ ~AbortPending
  /\ bySwitchConversation(k) /\ srvHas(calls[k].id)
  /\ LET r == getConversation(calls[k].id)
         w0 == [World EXCEPT !.calls[k].timer = -1]
         w1 == IF calls[k].aborted THEN w0
               ELSE [w0 EXCEPT
                  !.currentConversation = r.conversation,
                  !.messages = r.messages,
                  !.conversations = mapReplace(@, calls[k].id, r.conversation)]
         w2 == abort_switchConversation_finally(w1, k)
         w3 == initializeConversation_finally(w2, calls[k].caller, FALSE)
     IN Commit(Finish(w3, k, "ok", FALSE, FALSE), {k})
  /\ UNCHANGED <<variant, fetchRejectsWithReason, showArchived, srvConvs,
                 srvMsgs>>

\* catch and finally of switchConversation for a fetch rejected with err
abort_switchConversation_catch(k, err) ==
  LET raise == errName(err) # "AbortError"
      w1 == IF raise
            THEN [World EXCEPT !.error = "Failed to switch conversation"]
            ELSE World
      w2 == abort_switchConversation_finally(w1, k)
      w3 == initializeConversation_finally(w2, calls[k].caller, TRUE)
  IN Finish(w3, k, causeOf(calls[k], err), TRUE, raise)

abort_switchConversation_rejected(k) ==
  /\ variant = "abort" /\ Pending(k) /\ ~AbortPending
  /\ bySwitchConversation(k)
  /\ Commit(abort_switchConversation_catch(k, NetworkError), {k})
  /\ UNCHANGED <<variant, fetchRejectsWithReason, showArchived, srvConvs,
                 srvMsgs>>

abort_switchConversation_aborted(k) ==
  /\ variant = "abort" /\ Pending(k) /\ calls[k].aborted
  /\ bySwitchConversation(k)
  /\ Commit(abort_switchConversation_catch(k, rejectionOf(calls[k])), {k})
  /\ UNCHANGED <<variant, fetchRejectsWithReason, showArchived, srvConvs,
                 srvMsgs>>

\* -------------------------------------------- sendMessage of the API client
\* What the server's POST /api/conversation/ body holds, and whether the
\* server has a reply in the history it serves afterwards: it has one
\* whenever it answers with one.
ResponseShapes ==
  { s \in [conversation : BOOLEAN, response : BOOLEAN, stored : BOOLEAN] :
      s.response => s.stored }

lastWithRole(ms, role) ==
  LET of == SelectSeq(ms, LAMBDA m : m.role = role)
  IN IF Len(of) = 0 THEN undefined ELSE of[Len(of)]

\* The MessageResponse the client builds from a body of the given shape at
\* time now, the server holding conversation srvConv with messages srvMs.
api_sendMessage(shape, conversationId, content, now, srvConv, srvMs) ==
  LET fabricatedUser ==
        Msg(MsgId("temp-user-", now), "user", content, conversationId)
      defaultAssistantMessage ==
        Msg(MsgId("temp-assistant-", now), "assistant",
            IF shape.response THEN "reply" ELSE "apology", conversationId)
  IN IF shape.conversation
     THEN [conversation |-> srvConv, user_message |-> fabricatedUser,
           assistant_message |-> defaultAssistantMessage]
     ELSE IF shape.response
     THEN [conversation |-> Conv("temp-conversation", 0),
           user_message |-> fabricatedUser,
           assistant_message |-> defaultAssistantMessage]
     ELSE [conversation |-> srvConv,
           user_message |-> lastWithRole(srvMs, "user"),
           assistant_message |-> lastWithRole(srvMs, "assistant")]

\* The server stores the user message and, if it generated one, its reply.
srvAfterSend(ms, conversationId, content, now, stored) ==
  ms \o <<Msg(MsgId("srv", 100 + now), "user", content, conversationId)>>
     \o IF stored
        THEN <<Msg(MsgId("srv", 200 + now), "assistant", "reply",
                   conversationId)>>
        ELSE <<>>

srvBump(list, id) ==
  [i \in 1..Len(list) |->
     IF list[i].id = id THEN [list[i] EXCEPT !.rev = @ + 1] ELSE list[i]]

typingIndicator(conversationId) ==
  Msg(typingId, "assistant", "...", conversationId)

\* what a caller may hand to sendMessage(content)
Contents == {"text", ""}

\* ------------------------------------------------------- sendMessage (ctx)
\* isSending and currentConversation are those of the latest render: React
\* re-renders before the next user event reaches the handler.
ctx_sendMessage_call(content) ==
  /\ variant = "ctx" /\ CanCall
  /\ currentConversation # null
  /\ ~isSending
  /\ LET userMessageId == MsgId("temp-user-", clock)
         userMessage == Msg(userMessageId, "user", content,
                            currentConversation.id)
         filteredMessages ==
           SelectSeq(messages, LAMBDA m : m.id # typingId)
         w1 == [World EXCEPT
                  !.isSending = TRUE,
                  !.messages = filteredMessages \o
                     <<userMessage, typingIndicator(currentConversation.id)>>,
                  !.clock = @ + 1]
     IN Commit([w1 EXCEPT !.calls = Append(@,
                   [NewCall("sendMessage", currentConversation.id, "ui",
                            FALSE, -1, userMessageId, Snapshot(World))
                      EXCEPT !.content = content])],
               {Len(calls) + 1})
  /\ UNCHANGED <<variant, fetchRejectsWithReason, showArchived, srvConvs,
                 srvMsgs>>

ctx_sendMessage_resolved(k, shape) ==
  /\ variant = "ctx" /\ Pending(k) /\ ~AbortPending
  /\ calls[k].kind = "sendMessage" /\ srvHas(calls[k].id)
  /\ LET id == calls[k].id
         ms == srvAfterSend(srvMsgs[id], id, calls[k].content, clock,
                            shape.stored)
         list == srvBump(srvConvs, id)
         updated == CHOOSE c \in {list[i] : i \in 1..Len(list)} : c.id = id
         response == api_sendMessage(shape, id, calls[k].content, clock,
                                     updated, ms)
         updatedConversation == response.conversation
         safeAssistantMessage ==
           IF response.assistant_message # undefined
           THEN response.assistant_message
           ELSE Msg(MsgId("temp-assistant-", clock), "assistant", "apology", id)
         safeUserMessage ==
           IF response.user_message # undefined
           THEN response.user_message
           ELSE Msg(MsgId("temp-user-", clock), "user", calls[k].content, id)
         filteredMessages ==
           SelectSeq(messages,
                     LAMBDA m : m.id # typingId /\ ~startsWithTemp(m.id))
         w1 == [World EXCEPT
                  !.currentConversation = updatedConversation,
                  !.conversations =
                     mapReplace(@, updatedConversation.id, updatedConversation),
                  !.messages = filteredMessages \o
                               <<safeUserMessage, safeAssistantMessage>>,
                  !.isSending = FALSE,
                  !.clock = @ + 1]
     IN /\ Commit(Finish(w1, k, "ok", FALSE, FALSE), {k})
        /\ srvConvs' = list
        /\ srvMsgs' = [srvMsgs EXCEPT ![id] = ms]
  /\ UNCHANGED <<variant, fetchRejectsWithReason, showArchived>>

ctx_sendMessage_rejected(k) ==
  /\ variant = "ctx" /\ Pending(k) /\ ~AbortPending
  /\ calls[k].kind = "sendMessage"
  /\ LET userMessageId == calls[k].userMessageId
         w1 == [World EXCEPT
                  !.error = "Failed to send message",
                  !.messages = SelectSeq(@, LAMBDA m :
                                  m.id # userMessageId /\ m.id # typingId),
                  !.isSending = FALSE]
     IN Commit(Finish(w1, k, "error", TRUE, TRUE), {k})
  /\ UNCHANGED <<variant, fetchRejectsWithReason, showArchived, srvConvs,
                 srvMsgs>>

\* ----------------------------------------------------- sendMessage (abort)
abort_sendMessage_call(content) ==
  /\ variant = "abort" /\ CanCall
  /\ currentConversation # null
  /\ LET cs == abortHeld(calls, abortControllerRef, "sendMessage")
         userMessageId == MsgId("temp-user-", clock)
         userMessage == Msg(userMessageId, "user", content,
                            currentConversation.id)
         w1 == [World EXCEPT
                  !.abortControllerRef = Len(cs) + 1,
                  !.isSending = TRUE,
                  !.error = noError,
                  !.messages = @ \o
                     <<userMessage, typingIndicator(currentConversation.id)>>,
                  !.clock = @ + 1]
     IN Commit([w1 EXCEPT !.calls = Append(supersede(cs, "sendMessage"),
                   [NewCall("sendMessage", currentConversation.id, "ui", TRUE,
                            SendTimeout, userMessageId, Snapshot(World))
                      EXCEPT !.content = content])],
               {Len(calls) + 1})
  /\ UNCHANGED <<variant, fetchRejectsWithReason, showArchived, srvConvs,
                 srvMsgs>>

\* finally { if (abortControllerRef.current === controller) setIsSending(false);
\*           clearTimeout(timeoutId) }
abort_sendMessage_finally(w, k) ==
  [w EXCEPT !.isSending = IF w.abortControllerRef = k THEN FALSE ELSE @,
            !.calls[k].timer = -1]

abort_sendMessage_resolved(k, shape) ==
  /\ variant = "abort" /\ Pending(k) /\ ~AbortPending
  /\ calls[k].kind = "sendMessage" /\ srvHas(calls[k].id)
  /\ LET id == calls[k].id
         ms == srvAfterSend(srvMsgs[id], id, calls[k].content, clock,
                            shape.stored)
         list == srvBump(srvConvs, id)
         updated == CHOOSE c \in {list[i] : i \in 1..Len(list)} : c.id = id
         response == api_sendMessage(shape, id, calls[k].content, clock,
                                     updated, ms)
         updatedConversation == response.conversation
         filtered ==
           SelectSeq(messages,
                     LAMBDA m : m.id # typingId /\ ~startsWithTemp(m.id))
         w1 == IF calls[k].aborted THEN World
               ELSE [World EXCEPT
                  !.currentConversation = updatedConversation,
                  !.messages = filtered \o
                     <<Msg(MsgId("user-", clock), "user", calls[k].content, id),
                       response.assistant_message>>,
                  !.conversations =
                     mapReplace(@, updatedConversation.id, updatedConversation),
                  !.clock = @ + 1]
         w2 == abort_sendMessage_finally(w1, k)
     IN /\ Commit(Finish(w2, k, "ok", FALSE, FALSE), {k})
        /\ srvConvs' = list
        /\ srvMsgs' = [srvMsgs EXCEPT ![id] = ms]
  /\ UNCHANGED <<variant, fetchRejectsWithReason, showArchived>>

\* catch and finally of sendMessage for a fetch rejected with err
abort_sendMessage_catch(k, err) ==
  LET raise == errName(err) # "AbortError"
      w1 == IF raise
            THEN [World EXCEPT
                    !.error = "Failed to send message. Please try again.",
                    !.messages = SelectSeq(@, LAMBDA m :
                                   ~startsWithTemp(m.id) /\ m.id # typingId)]
            ELSE World
      w2 == abort_sendMessage_finally(w1, k)
  IN Finish(w2, k, causeOf(calls[k], err), TRUE, raise)

abort_sendMessage_rejected(k) ==
  /\ variant = "abort" /\ Pending(k) /\ ~AbortPending
  /\ calls[k].kind = "sendMessage"
  /\ Commit(abort_sendMessage_catch(k, NetworkError), {k})
  /\ UNCHANGED <<variant, fetchRejectsWithReason, showArchived, srvConvs,
                 srvMsgs>>

abort_sendMessage_aborted(k) ==
  /\ variant = "abort" /\ Pending(k) /\ calls[k].aborted
  /\ calls[k].kind = "sendMessage"
  /\ Commit(abort_sendMessage_catch(k, rejectionOf(calls[k])), {k})
  /\ UNCHANGED <<variant, fetchRejectsWithReason, showArchived, srvConvs,
                 srvMsgs>>

\* ------------------------- createNewConversation(initialMessage) (both)
\* createNewConversation with an initial message, up to its await: the
\* client's createConversation posts { title, is_archived, initial_message }.
createNewConversation_call(initialMessage) ==
  /\ CanCall
  /\ calls # <<>>   \* the effect of the provider has run
  /\ initialMessage # ""
  /\ Cardinality({j \in 1..Len(calls) :
                    /\ calls[j].kind = "createConversation"
                    /\ calls[j].content # ""}) < MaxCreates
  /\ Commit([World EXCEPT
               !.isLoading = TRUE,
               !.calls = Append(@,
                  [NewCall("createConversation", "", "ui", FALSE, -1, noId,
                           Snapshot(World))
                     EXCEPT !.content = initialMessage])],
            {Len(calls) + 1})
  /\ UNCHANGED <<variant, fetchRejectsWithReason, showArchived, srvConvs,
                 srvMsgs>>

\* catch and finally of createNewConversation, for whatever the client's
\* createConversation threw
createNewConversation_catch(k) ==
  Finish([World EXCEPT !.error = "Failed to create conversation",
                       !.isLoading = FALSE], k, "error", TRUE, TRUE)

\* A request made inside the client's createConversation for the
\* conversation it has posted; it runs in the closure of call k.
api_request(w, k, kind, id, caller) ==
  awaitedBy([w EXCEPT !.calls = Append(@,
               [NewCall(kind, id, caller, FALSE, -1, noId, Snapshot(w))
                  EXCEPT !.content = calls[k].content])], k)

\* The POST is answered with the conversation created: the client goes on
\* to await sendMessage(conversation.id, data.initialMessage, token, signal).
\* A POST that fails ends as in createNewConversation_rejected.
createConversation_posted(k) ==
  /\ Pending(k) /\ ~AbortPending
  /\ calls[k].kind = "createConversation" /\ calls[k].content # ""
  /\ LET conversation == Conv(newConversationId, 0)
         w1 == Finish([World EXCEPT !.calls[k].id = conversation.id],
                      k, "ok", FALSE, FALSE)
     IN /\ Commit(api_request(w1, k, "sendMessage", conversation.id,
                              "createConversation"),
                  {k, Len(calls) + 1})
        /\ srvConvs' = <<conversation>> \o srvConvs
  /\ UNCHANGED <<variant, fetchRejectsWithReason, showArchived, srvMsgs>>

\* a request of the client's createConversation that the handler awaits
ByClient(k, kind) ==
  /\ Pending(k) /\ ~AbortPending
  /\ calls[k].kind = kind /\ calls[k].caller = "createConversation"

\* The client's own sendMessage returned; its result is dropped and the
\* conversation is fetched again.
createConversation_sent(k, shape) ==
  /\ ByClient(k, "sendMessage") /\ srvHas(calls[k].id)
  /\ LET id == calls[k].id
     IN /\ Commit(api_request(Finish(World, k, "ok", FALSE, FALSE), k,
                              "getConversation", id, "createConversation"),
                  {k, Len(calls) + 1})
        /\ srvConvs' = srvBump(srvConvs, id)
        /\ srvMsgs' = [srvMsgs EXCEPT ![id] =
              srvAfterSend(@, id, calls[k].content, clock, shape.stored)]
  /\ UNCHANGED <<variant, fetchRejectsWithReason, showArchived>>

createConversation_sendFailed(k) ==
  /\ ByClient(k, "sendMessage")
  /\ Commit(createNewConversation_catch(k), {k})
  /\ UNCHANGED <<variant, fetchRejectsWithReason, showArchived, srvConvs,
                 srvMsgs>>

\* setMessages([newMessage]) with the MessageResponse sendMessage returned:
\* an object that has no id, role or content of its own
responseAsMessage(conversationId) ==
  Msg(MsgId("undefined", 0), "undefined", "undefined", conversationId)

\* createConversation returned the conversation fetched again: the rest of
\* createNewConversation up to its await of conversationAPI.sendMessage.
createConversation_returned(k) ==
  /\ ByClient(k, "getConversation") /\ srvHas(calls[k].id)
  /\ LET newConversation == getConversation(calls[k].id).conversation
         w1 == [World EXCEPT !.conversations = atHead(newConversation, @),
                             !.currentConversation = newConversation]
     IN Commit(api_request(Finish(w1, k, "ok", FALSE, FALSE), k,
                           "sendMessage", newConversation.id,
                           "createNewConversation"),
               {k, Len(calls) + 1})
  /\ UNCHANGED <<variant, fetchRejectsWithReason, showArchived, srvConvs,
                 srvMsgs>>

createConversation_refetchFailed(k) ==
  /\ ByClient(k, "getConversation")
  /\ Commit(createNewConversation_catch(k), {k})
  /\ UNCHANGED <<variant, fetchRejectsWithReason, showArchived, srvConvs,
                 srvMsgs>>

\* conversationAPI.sendMessage(newConversation.id, initialMessage, token) of
\* createNewConversation returned
createNewConversation_sent(k, shape) ==
  /\ Pending(k) /\ ~AbortPending
  /\ calls[k].kind = "sendMessage"
  /\ calls[k].caller = "createNewConversation" /\ srvHas(calls[k].id)
  /\ LET id == calls[k].id
         w1 == [World EXCEPT !.messages = <<responseAsMessage(id)>>,
                             !.isLoading = FALSE]
     IN /\ Commit(Finish(w1, k, "ok", FALSE, FALSE), {k})
        /\ srvConvs' = srvBump(srvConvs, id)
        /\ srvMsgs' = [srvMsgs EXCEPT ![id] =
              srvAfterSend(@, id, calls[k].content, clock, shape.stored)]
  /\ UNCHANGED <<variant, fetchRejectsWithReason, showArchived>>

\* catch (error) { setMessages([]) } around that call, then the finally
createNewConversation_sendFailed(k) ==
  /\ Pending(k) /\ ~AbortPending
  /\ calls[k].kind = "sendMessage"
  /\ calls[k].caller = "createNewConversation"
  /\ Commit(Finish([World EXCEPT !.messages = <<>>, !.isLoading = FALSE],
                   k, "error", FALSE, FALSE), {k})
  /\ UNCHANGED <<variant, fetchRejectsWithReason, showArchived, srvConvs,
                 srvMsgs>>

\* ------------------------------------------------ toggleShowArchived (both)
\* the times the effect has run after its first run
toggles ==
  Cardinality({j \in 1..Len(calls) :
                 /\ calls[j].kind = "getConversations"
                 /\ calls[j].caller = "initializeConversation"}) - 1

\* setShowArchived(prev => !prev); showArchived is a dependency of the
\* effect, which runs again after the render: initializeConversation up to
\* its await, loadConversations reading the new showArchived.
toggleShowArchived ==
  /\ CanCall /\ calls # <<>>
  /\ toggles < MaxToggles
  /\ showArchived' = ~showArchived
  /\ Commit([World EXCEPT
               !.isLoading = TRUE,
               !.calls = Append(@,
                  [NewCall("getConversations", "", "initializeConversation",
                           FALSE, -1, noId, Snapshot(World))
                     EXCEPT !.archived = ~showArchived])],
            {Len(calls) + 1})
  /\ UNCHANGED <<variant, fetchRejectsWithReason, srvConvs, srvMsgs>>

\* ----------------------------------------------------------------- timers
Armed(k) == k \in 1..Len(calls) /\ calls[k].timer >= 0
Running(k) == Armed(k) /\ Pending(k)

\* Time passes for the timers of the requests in flight.  It is counted in
\* steps of the shorter timeout: no handler reads the time that is left.
Tick ==
  /\ ~AbortPending
  /\ \E k \in 1..Len(calls) : Running(k)
  /\ \A k \in 1..Len(calls) : Running(k) => calls[k].timer > 0
  /\ calls' = [k \in 1..Len(calls) |->
                 IF Running(k)
                 THEN [calls[k] EXCEPT !.timer = IF @ > SwitchTimeout
                                                 THEN @ - SwitchTimeout ELSE 0]
                 ELSE calls[k]]
  /\ UNCHANGED <<variant, fetchRejectsWithReason, conversations,
                 currentConversation, messages, isLoading, isSending, error,
                 showArchived, abortControllerRef, clock, srvConvs, srvMsgs>>
  /\ UNCHANGED <<mounted, getMessages_vars>>

\* The setTimeout callback: controller.abort('Request timed out after ...')
timeout(k) ==
  /\ mounted /\ ~AbortPending
  /\ Armed(k) /\ calls[k].timer = 0
  /\ calls' = [calls EXCEPT ![k].timer = -1,
                            ![k].aborted = TRUE,
                            ![k].abortedBy = IF calls[k].aborted THEN @
                                             ELSE "timeout"]
  /\ UNCHANGED <<variant, fetchRejectsWithReason, conversations,
                 currentConversation, messages, isLoading, isSending, error,
                 showArchived, abortControllerRef, clock, srvConvs, srvMsgs>>
  /\ UNCHANGED <<mounted, getMessages_vars>>

\* ------------------------------------------ getMessages of the API client
\* A message of a page: created_at is the time its timestamp parses to.
PageMessages == { [id |-> "m1", created_at |-> 1],
                  [id |-> "m2", created_at |-> 2],
                  [id |-> "m3", created_at |-> 2] }

SeqsUpTo(S, n) == UNION { [1..l -> S] : l \in 0..n }
\* The server cuts the history into pages as it likes: the client has no say
\* in what data.results of a page holds.
PageLists == { ps \in SeqsUpTo(SeqsUpTo(PageMessages, MaxPageLen), MaxPages) :
                 Len(ps) >= 1 }

\* Array.prototype.sort is stable: b goes behind every entry that is not
\* newer than it.
RECURSIVE insertSorted(_, _)
insertSorted(s, b) ==
  IF s = <<>> THEN <<b>>
  ELSE IF s[Len(s)].created_at - b.created_at <= 0 THEN Append(s, b)
  ELSE Append(insertSorted(SubSeq(s, 1, Len(s) - 1), b), s[Len(s)])

\* allMessages.sort((a, b) => new Date(a.created_at) - new Date(b.created_at))
RECURSIVE sortByCreatedAt(_)
sortByCreatedAt(ms) ==
  IF ms = <<>> THEN <<>>
  ELSE insertSorted(sortByCreatedAt(SubSeq(ms, 1, Len(ms) - 1)), ms[Len(ms)])

getMessages_running == getMessages_result.st = "running"

\* One turn of the while loop with response.ok: the page's results are
\* appended and data.next is followed; without a next page the loop ends and
\* the sorted array is returned.
getMessages_page ==
  /\ getMessages_running /\ nextUrl # 0
  /\ LET results == pages[nextUrl]
         next == IF nextUrl < Len(pages) THEN nextUrl + 1 ELSE 0
     IN /\ allMessages' = allMessages \o results
        /\ nextUrl' = next
        /\ getMessages_result' =
              IF next = 0
              THEN [st |-> "returned",
                    value |-> sortByCreatedAt(allMessages \o results),
                    failedAt |-> 0]
              ELSE getMessages_result
  /\ UNCHANGED <<pages, variant, mounted, fetchRejectsWithReason, conversations,
                 currentConversation, messages, isLoading, isSending, error,
                 showArchived, abortControllerRef, calls, clock, srvConvs,
                 srvMsgs>>

\* if (!response.ok) { console.error(...); break; } and the return after it
getMessages_notOk ==
  /\ getMessages_running /\ nextUrl # 0
  /\ getMessages_result' = [st |-> "returned",
                            value |-> sortByCreatedAt(allMessages),
                            failedAt |-> nextUrl]
  /\ UNCHANGED <<pages, nextUrl, allMessages, variant, mounted,
                 fetchRejectsWithReason, conversations, currentConversation, messages, isLoading,
                 isSending, error, showArchived, abortControllerRef, calls,
                 clock, srvConvs, srvMsgs>>

\* fetch rejects (network down): catch (error) { throw error }
getMessages_catch ==
  /\ getMessages_running /\ nextUrl # 0
  /\ getMessages_result' = [st |-> "threw", value |-> <<>>,
                            failedAt |-> nextUrl]
  /\ UNCHANGED <<pages, nextUrl, allMessages, variant, mounted,
                 fetchRejectsWithReason, conversations, currentConversation, messages, isLoading,
                 isSending, error, showArchived, abortControllerRef, calls,
                 clock, srvConvs, srvMsgs>>

getMessages_idle ==
  /\ pages = <<>>
  /\ nextUrl = 0
  /\ allMessages = <<>>
  /\ getMessages_result = [st |-> "none", value |-> <<>>, failedAt |-> 0]

\* -------------------------------------------------------------- teardown
\* The provider is unmounted.  part_003 registers a cleanup that aborts the
\* controller the ref holds; ConversationContext.tsx registers none.
unmount ==
  /\ mounted /\ calls # <<>> /\ ~AbortPending
  /\ mounted' = FALSE
  /\ calls' = IF variant = "abort"
              THEN abortHeld(calls, abortControllerRef, "unmount")
              ELSE calls
  /\ UNCHANGED <<variant, fetchRejectsWithReason, conversations,
                 currentConversation, messages, isLoading, isSending, error,
                 showArchived, abortControllerRef, clock, srvConvs, srvMsgs>>
  /\ UNCHANGED getMessages_vars

\* The requests in flight are answered, or rejected, after the unmount:
\* React drops every setState of an unmounted component, so whatever the
\* continuations do the provider's state stays.  The answers reach nothing
\* they could order themselves by: they are taken together.
settled_unmounted ==
  /\ ~mounted /\ \E k \in 1..Len(calls) : InFlight(k)
  /\ calls' = [k \in 1..Len(calls) |->
                 IF InFlight(k)
                 THEN [calls[k] EXCEPT !.st = "settled",
                                       !.outcome = "unmounted"]
                 ELSE calls[k]]
  /\ UNCHANGED <<variant, mounted, fetchRejectsWithReason, conversations,
                 currentConversation, messages, isLoading, isSending, error,
                 showArchived, abortControllerRef, clock, srvConvs, srvMsgs>>
  /\ UNCHANGED getMessages_vars

\* the provider as constructed
InitProvider ==
  /\ getMessages_idle
  /\ mounted = TRUE
  /\ variant \in Variants
  \* only part_003 aborts a fetch
  /\ fetchRejectsWithReason \in IF variant = "abort" THEN BOOLEAN ELSE {FALSE}
  /\ conversations = <<>>
  /\ currentConversation = null
  /\ messages = <<>>
  /\ isLoading = TRUE
  /\ isSending = FALSE
  /\ error = noError
  /\ showArchived = FALSE
  /\ abortControllerRef = 0
  /\ calls = <<>>
  /\ clock = 1
  /\ srvMsgs = InitialServerMsgs

Init == InitProvider /\ srvConvs \in InitialServerLists

\* A handler started as call MaxCalls awaits at most two further calls.
Calls == 1..(MaxCalls + 2)

Next ==
  \/ initializeConversation
  \/ \E k \in Calls, ok \in BOOLEAN : loadConversations_settled(k, ok)
  \/ \E k \in Calls : basic_loadConversations_resolved(k)
  \/ \E k \in Calls : basic_loadConversations_rejected(k)
  \/ \E k \in Calls : basic_switchConversation_resolved(k)
  \/ \E k \in Calls : basic_switchConversation_rejected(k)
  \/ \E k \in Calls : basic_loadMessages_resolved(k)
  \/ \E k \in Calls : basic_loadMessages_rejected(k)
  \/ handleNewConversation
  \/ \E k \in Calls : createNewConversation_resolved(k)
  \/ \E k \in Calls : createNewConversation_rejected(k)
  \/ \E id \in ConversationIds : deleteConversation_call(id)
  \/ \E k \in Calls : deleteConversation_resolved(k)
  \/ \E k \in Calls : deleteConversation_rejected(k)
  \/ \E k \in Calls, ok \in BOOLEAN : deleteConversation_listed(k, ok)
  \/ updateCurrentConversation_call
  \/ \E k \in Calls : updateCurrentConversation_resolved(k)
  \/ \E k \in Calls : updateCurrentConversation_rejected(k)
  \/ \E id \in ConversationIds : archiveConversation_call(id)
  \/ \E k \in Calls : archiveConversation_resolved(k)
  \/ \E k \in Calls : archiveConversation_rejected(k)
  \/ \E id \in ConversationIds : ctx_switchConversation_call(id)
  \/ \E k \in Calls : ctx_switchConversation_resolved(k)
  \/ \E k \in Calls : ctx_switchConversation_rejected(k)
  \/ \E id \in ConversationIds : abort_switchConversation_call(id)
  \/ \E k \in Calls : abort_switchConversation_resolved(k)
  \/ \E k \in Calls : abort_switchConversation_rejected(k)
  \/ \E k \in Calls : abort_switchConversation_aborted(k)
  \/ \E content \in Contents : ctx_sendMessage_call(content)
  \/ \E k \in Calls, shape \in ResponseShapes : ctx_sendMessage_resolved(k, shape)
  \/ \E k \in Calls : ctx_sendMessage_rejected(k)
  \/ \E content \in Contents : abort_sendMessage_call(content)
  \/ \E k \in Calls, shape \in ResponseShapes : abort_sendMessage_resolved(k, shape)
  \/ \E k \in Calls : abort_sendMessage_rejected(k)
  \/ \E k \in Calls : abort_sendMessage_aborted(k)
  \/ Tick
  \/ \E k \in Calls : timeout(k)
  \/ unmount
  \/ settled_unmounted

Spec == Init /\ [][Next]_vars

\* getMessages(conversationId, token) called on its own, for every way the
\* server may page the history; the provider stays as constructed.
InitMessages ==
  /\ pages \in PageLists
  /\ nextUrl = 1
  /\ allMessages = <<>>
  /\ getMessages_result = [st |-> "running", value |-> <<>>, failedAt |-> 0]
  /\ variant = "ctx"
  /\ mounted = TRUE
  /\ fetchRejectsWithReason = FALSE
  /\ conversations = <<>>
  /\ currentConversation = null
  /\ messages = <<>>
  /\ isLoading = TRUE
  /\ isSending = FALSE
  /\ error = noError
  /\ showArchived = FALSE
  /\ abortControllerRef = 0
  /\ calls = <<>>
  /\ clock = 1
  /\ srvConvs = <<>>
  /\ srvMsgs = InitialServerMsgs

NextMessages ==
  \/ getMessages_page
  \/ getMessages_notOk
  \/ getMessages_catch

SpecMessages == InitMessages /\ [][NextMessages]_vars

\* Initialization on its own: the effect and the handlers it awaits.
NextInitialization ==
  \/ initializeConversation
  \/ \E k \in Calls, ok \in BOOLEAN : loadConversations_settled(k, ok)
  \/ \E k \in Calls : createNewConversation_resolved(k)
  \/ \E k \in Calls : createNewConversation_rejected(k)
  \/ \E k \in Calls : ctx_switchConversation_resolved(k)
  \/ \E k \in Calls : ctx_switchConversation_rejected(k)
  \/ \E k \in Calls : abort_switchConversation_resolved(k)
  \/ \E k \in Calls : abort_switchConversation_rejected(k)
  \/ \E k \in Calls : abort_switchConversation_aborted(k)
  \/ Tick
  \/ \E k \in Calls : timeout(k)

\* The provider initializes and a consumer calls
\* createNewConversation(initialMessage).
InitCreate == Init /\ variant # "basic"

NextCreate ==
  \/ NextInitialization
  \/ \E initialMessage \in Contents : createNewConversation_call(initialMessage)
  \/ \E k \in Calls : createConversation_posted(k)
  \/ \E k \in Calls, shape \in ResponseShapes : createConversation_sent(k, shape)
  \/ \E k \in Calls : createConversation_sendFailed(k)
  \/ \E k \in Calls : createConversation_returned(k)
  \/ \E k \in Calls : createConversation_refetchFailed(k)
  \/ \E k \in Calls, shape \in ResponseShapes : createNewConversation_sent(k, shape)
  \/ \E k \in Calls : createNewConversation_sendFailed(k)

SpecCreate == InitCreate /\ [][NextCreate]_vars

\* The provider initializes on an account with an archived conversation and
\* the user toggles the archive filter.
InitToggle ==
  InitProvider /\ variant # "basic" /\ srvConvs \in ArchivedServerLists

NextToggle ==
  \/ NextInitialization
  \/ toggleShowArchived

SpecToggle == InitToggle /\ [][NextToggle]_vars

\* ================================================================ claims
CallIds == 1..Len(calls)
Settled(k) == k \in CallIds /\ calls[k].st = "settled"
IsSwitch(k) == k \in CallIds /\ calls[k].kind = "getConversation"
IsSend(k) == k \in CallIds /\ calls[k].kind = "sendMessage"
\* the step issues a new API call of the given kind
Issues(kind) ==
  /\ Len(calls') = Len(calls) + 1
  /\ calls'[Len(calls')].kind = kind
IsPrefix(s, t) == Len(s) <= Len(t) /\ SubSeq(t, 1, Len(s)) = s
Temporary(m) == m.id = typingId \/ startsWithTemp(m.id)

LastSwitch ==
  CHOOSE k \in CallIds : IsSwitch(k) /\ \A j \in CallIds : IsSwitch(j) => j <= k

\* C1: after rapid switchConversation calls whose responses all arrive, the
\* active conversation and the messages are those of the last call's target,
\* and the response of a superseded call is never written into
\* currentConversation or messages.
C1_LastSwitchWins ==
  /\ ( /\ Len(calls) >= 3
       /\ \A k \in CallIds : calls[k].kind \in {"getConversations",
                                                "getConversation"}
       /\ \A k \in CallIds : Settled(k) /\ calls[k].outcome \in
                                             {"ok", "superseded"}
       /\ calls[Len(calls)].outcome = "ok" )
     => /\ currentConversation.id = calls[Len(calls)].id
        /\ \A i \in 1..Len(messages) :
              messages[i].conv = calls[Len(calls)].id
  /\ \A k \in CallIds :
        ( /\ IsSwitch(k) /\ Settled(k) /\ calls[k].stale
          /\ calls[k].id # calls[LastSwitch].id )
        => ~calls[k].wrote

\* C2: once no send is in flight, the visible sequence holds no entry with a
\* 'temp-' id and no 'typing-indicator' entry.
C2_NoTemporaryLeft ==
  (mounted /\ \A k \in CallIds : IsSend(k) => Settled(k) /\ ~calls[k].stale)
    => \A i \in 1..Len(messages) : ~Temporary(messages[i])

\* C3: a successful send leaves the sequence it found, every entry kept in
\* order, followed by the two messages of the send, and removes nothing.
C3_SendAppendsTwo ==
  \A k \in CallIds :
    ( /\ IsSend(k) /\ Settled(k) /\ calls[k].outcome = "ok"
      /\ calls[k].alone /\ srvHas(calls[k].id) )
    => LET b == calls[k].before.messages
           a == calls[k].after.messages
       IN Len(a) = Len(b) + 2 /\ IsPrefix(b, a)

\* C4: while a send is in flight a further sendMessage issues no request.
C4_SecondSendRejected ==
  [][ (\E k \in CallIds : IsSend(k) /\ Pending(k) /\ ~calls[k].aborted)
        => ~Issues("sendMessage") ]_vars

\* C5: a send answered after the user has switched to another conversation
\* adds nothing to the messages shown and leaves the active conversation.
C5_NoLeakAfterSwitch ==
  [][ \A k \in CallIds :
        ( /\ IsSend(k) /\ Pending(k) /\ calls'[k].st = "settled"
          /\ currentConversation.id \in ConversationIds
          /\ currentConversation.id # calls[k].id )
        => /\ currentConversation' = currentConversation
           /\ \A i \in 1..Len(messages') :
                 messages'[i].conv # calls[k].id ]_vars

\* C6: a send that fails with a non-cancellation error leaves the sequence,
\* the active conversation and the list as they were before the send, sets
\* error and clears isSending.
C6_FailedSendRollsBack ==
  \A k \in CallIds :
    ( /\ IsSend(k) /\ Settled(k) /\ calls[k].outcome = "error"
      /\ calls[k].alone /\ srvHas(calls[k].id) )
    => /\ calls[k].after.messages = calls[k].before.messages
       /\ calls[k].after.currentConversation
            = calls[k].before.currentConversation
       /\ calls[k].after.conversations = calls[k].before.conversations
       /\ calls[k].after.error # noError
       /\ calls[k].after.isSending = FALSE

\* C7: issuing a call of one kind never cancels a call of the other kind
\* that is in flight.
C7_TokensPerKind ==
  [][ \A k \in CallIds :
        ( /\ Pending(k) /\ ~calls[k].aborted
          /\ \/ IsSend(k) /\ Issues("getConversation")
             \/ IsSwitch(k) /\ Issues("sendMessage") )
        => ~calls'[k].aborted ]_vars

\* C8: a switch superseded by a newer switch sets no error and raises
\* nothing to its caller.
C8_SupersededSwitchSilent ==
  \A k \in CallIds :
    IsSwitch(k) /\ Settled(k) /\ calls[k].abortedBy = "switchConversation"
                /\ calls[k].outcome = "superseded"
    => ~calls[k].threw /\ ~calls[k].raisedError

\* C9: a switch or send ended by its timeout does not set error.
C9_TimeoutSetsNoError ==
  \A k \in CallIds :
    Settled(k) /\ calls[k].outcome = "timeout" => ~calls[k].raisedError

\* C10: every switch and send in flight has its timeout armed (or has just
\* been cancelled and is about to settle), so none can stay in flight for ever.
C10_EveryCallTimed ==
  \A k \in CallIds :
    Pending(k) /\ (IsSwitch(k) \/ IsSend(k))
    => calls[k].timer >= 0 \/ calls[k].aborted

\* C11: the continuation of a switch or send that a newer call of its kind
\* has superseded changes none of currentConversation, messages,
\* conversations, error, isLoading and isSending, whether its request
\* succeeded or failed.
C11_StaleWritesNothing ==
  \A k \in CallIds :
    (IsSwitch(k) \/ IsSend(k)) /\ Settled(k) /\ calls[k].stale
    => ~calls[k].mutated

\* ------------------------------------------- claims about delete and archive
\* the provider is mounted and awaits nothing
Quiet == mounted /\ \A k \in CallIds : Settled(k)
\* no two operations have overlapped so far
NoOverlap == \A j \in CallIds : calls[j].alone
\* The handler of call k ran to its end undisturbed as the latest operation:
\* l is the call it awaited second, the last call is the one it awaited third.
RanAlone(k, l) ==
  /\ Quiet /\ NoOverlap /\ Len(calls) = l + 1
  /\ calls[l].parent = k /\ calls[l + 1].parent = l
  /\ ~calls[l + 1].threw
\* the non-archived conversations the server holds besides id and the one the
\* last call created
OtherOpen(id) ==
  {c \in {srvConvs[i] : i \in 1..Len(srvConvs)} :
     /\ ~c.is_archived /\ c.id # id
     /\ ~(calls[Len(calls)].kind = "createConversation"
          /\ c.id = calls[Len(calls)].id)}

\* C14: deleteConversation(id) of the active conversation, once it has
\* returned: if another non-archived conversation exists, one of those is
\* active and id is neither active nor listed; otherwise a conversation just
\* created is active and no messages are shown.
C14_DeleteActive ==
  \A k, l \in CallIds :
    ( /\ calls[k].kind = "deleteConversation" /\ calls[k].outcome = "ok"
      /\ calls[k].closure.currentConversation.id = calls[k].id
      /\ RanAlone(k, l) )
    => /\ currentConversation.id # calls[k].id
       /\ calls[k].id \notin ListedIds
       /\ IF OtherOpen(calls[k].id) # {}
          THEN currentConversation \in OtherOpen(calls[k].id)
          ELSE /\ calls[Len(calls)].kind = "createConversation"
               /\ currentConversation.id = calls[Len(calls)].id
               /\ messages = <<>>

\* C15: archiveConversation(id, true) of the active conversation while
\* showArchived is false, once it has returned: id is no longer in the list
\* shown, and another non-archived conversation, or one just created when
\* there is no other, is active.
C15_ArchiveActive ==
  \A k \in CallIds :
    ( /\ calls[k].kind = "archiveConversation" /\ calls[k].outcome = "ok"
      /\ calls[k].closure.currentConversation.id = calls[k].id
      /\ ~showArchived
      /\ Quiet /\ NoOverlap /\ Len(calls) = k + 1
      /\ calls[k + 1].parent = k /\ ~calls[k + 1].threw )
    => /\ calls[k].id \notin ListedIds
       /\ currentConversation.id # calls[k].id
       /\ ~currentConversation.is_archived
       /\ OtherOpen(calls[k].id) = {}
            => calls[k + 1].kind = "createConversation"

\* C16: the unmount of the provider aborts every switch and send in flight,
\* and no answer that comes after it changes the provider's state.
C16_TeardownCancels ==
  [][ /\ (mounted /\ ~mounted')
         => \A k \in CallIds :
              (IsSwitch(k) \/ IsSend(k)) /\ InFlight(k) => calls'[k].aborted
      /\ ~mounted
         => UNCHANGED <<conversations, currentConversation, messages,
                        isLoading, isSending, error>> ]_vars

\* C17: once initialization has ended without an error: if the list
\* request listed conversations, the first of them is active with its
\* messages; if it listed none, a conversation just created is active and
\* heads the list, and no messages are shown; isLoading is false.
C17_Initialization ==
  ( /\ mounted /\ calls # <<>> /\ Quiet /\ NoOverlap
    /\ \A k \in CallIds :
          /\ calls[k].caller \in {"initializeConversation", "loadMessages"}
          /\ ~calls[k].threw /\ ~calls[k].raisedError )
  => LET listed == calls[1].after.conversations
     IN /\ isLoading = FALSE
        /\ IF listed # <<>>
           THEN /\ currentConversation.id = listed[1].id
                /\ messages = srvMsgs[listed[1].id]
           ELSE /\ Len(calls) = 2 /\ calls[2].kind = "createConversation"
                /\ currentConversation.id = calls[2].id
                /\ conversations # <<>>
                /\ conversations[1] = currentConversation
                /\ messages = <<>>

\* C18: when createNewConversation succeeds, the conversation created is put
\* in front of the list, whose former entries stay in their order, it is
\* the active conversation, and (no initial message given) no messages are
\* shown.
C18_CreatePrepends ==
  [][ \A k \in CallIds :
        ( /\ calls[k].kind = "createConversation" /\ Pending(k)
          /\ calls'[k].outcome = "ok" )
        => /\ Len(conversations') = Len(conversations) + 1
           /\ conversations'[1].id = calls'[k].id
           /\ SubSeq(conversations', 2, Len(conversations')) = conversations
           /\ currentConversation' = conversations'[1]
           /\ messages' = <<>> ]_vars

\* the New Chat button has put a conversation in front of a list that had
\* entries, and messages were shown before
C18_Witness ==
  \E k \in CallIds :
    /\ calls[k].kind = "createConversation" /\ calls[k].outcome = "ok"
    /\ calls[k].caller = "handleNewConversation"
    /\ calls[k].before.conversations # <<>>
    /\ calls[k].before.messages # <<>>
    /\ Len(calls[k].after.conversations) >= 2

\* C19: when updateCurrentConversation succeeds, the conversation the API
\* answered with is the active one and stands in the list wherever an entry
\* had its id, every other entry and the messages staying as they were;
\* when it fails, error is set and the active conversation and the list
\* stay as they were.
C19_UpdateMirrors ==
  [][ \A k \in CallIds :
        ( /\ calls[k].kind = "updateConversation" /\ Pending(k)
          /\ calls'[k].st = "settled" )
        => IF calls'[k].outcome = "ok"
           THEN /\ currentConversation'.id = calls[k].id
                /\ \E i \in 1..Len(srvConvs') :
                      srvConvs'[i] = currentConversation'
                /\ Len(conversations') = Len(conversations)
                /\ \A i \in 1..Len(conversations) :
                      conversations'[i] =
                        IF conversations[i].id = calls[k].id
                        THEN currentConversation' ELSE conversations[i]
                /\ messages' = messages
           ELSE /\ error' # noError
                /\ currentConversation' = currentConversation
                /\ conversations' = conversations ]_vars

\* an update has succeeded with two conversations listed and messages
\* shown, and another update has failed
C19_Witness ==
  /\ \E k \in CallIds :
        /\ calls[k].kind = "updateConversation" /\ calls[k].outcome = "ok"
        /\ Len(calls[k].before.conversations) >= 2
        /\ calls[k].before.messages # <<>>
        /\ calls[k].after.currentConversation
             # calls[k].before.currentConversation
  /\ \E k \in CallIds :
        calls[k].kind = "updateConversation" /\ calls[k].outcome = "error"

\* C20: sendMessage('') issues no request and leaves messages, isSending,
\* error and currentConversation as they are.
C20_EmptyMessageRejected ==
  /\ \A k \in CallIds : IsSend(k) => calls[k].content # ""
  /\ \A i \in 1..Len(messages) :
        messages[i].role = "user" => messages[i].content # ""

\* ------------------------------------------------------ claims about sends
\* the step runs the success path of send k to its end
SendSucceeds(k) ==
  /\ IsSend(k) /\ Pending(k) /\ ~calls[k].aborted
  /\ calls'[k].outcome = "ok"

\* C21: when the answer to a send carries no assistant message (the body has
\* none and the history the server serves has none either), the sequence
\* shown after the send still ends with the user's message followed by one
\* assistant entry, which holds the fixed apology text.
C21_FallbackAssistant ==
  [][ \A k \in CallIds :
        ( /\ SendSucceeds(k)
          /\ lastWithRole(srvMsgs'[calls[k].id], "assistant") = undefined )
        => LET n == Len(messages')
           IN /\ n >= 2
              /\ messages'[n - 1].role = "user"
              /\ messages'[n].role = "assistant"
              /\ messages'[n].content = "apology" ]_vars

\* C22: whatever way switchConversation and sendMessage calls (and their
\* timeouts) have interleaved after initialization, once nothing is in
\* flight isLoading and isSending are both false.
C22_ReturnsToReady ==
  ( /\ Quiet /\ calls # <<>>
    /\ \A k \in CallIds :
          \/ calls[k].caller = "initializeConversation"
          \/ IsSwitch(k) \/ IsSend(k) )
  => ~isLoading /\ ~isSending

\* C23: when the getConversation request of a switchConversation fails with
\* an error that is no cancellation, the step that handles the failure
\* leaves currentConversation, messages and conversations as they are, sets
\* error and clears isLoading.
C23_FailedSwitchKeepsState ==
  [][ \A k \in CallIds :
        ( /\ IsSwitch(k) /\ Pending(k)
          /\ calls'[k].st = "settled" /\ calls'[k].outcome = "error" )
        => /\ currentConversation' = currentConversation
           /\ messages' = messages
           /\ conversations' = conversations
           /\ error' # noError
           /\ isLoading' = FALSE ]_vars

\* a switch the user asked for has failed while a conversation with
\* messages was shown
C23_Witness ==
  \E k \in CallIds :
    /\ IsSwitch(k) /\ calls[k].caller = "ui" /\ calls[k].outcome = "error"
    /\ calls[k].before.currentConversation # null
    /\ calls[k].before.messages # <<>>
    /\ calls[k].before.error = noError
    /\ calls[k].after.error # noError

\* C24: a send on conversation C that succeeds while C is still the active
\* conversation and listed leaves C active: after the step
\* currentConversation.id is C and an entry of the list has that id,
\* whatever the body of the server's answer holds.
C24_SendKeepsActiveId ==
  [][ \A k \in CallIds :
        ( /\ SendSucceeds(k)
          /\ currentConversation.id = calls[k].id
          /\ calls[k].id \in ListedIds )
        => /\ currentConversation'.id = calls[k].id
           /\ \E i \in 1..Len(conversations') :
                 conversations'[i].id = currentConversation'.id ]_vars

\* ------------------------------------------- claims about races and errors
\* C26: initialization creates a conversation only after a list request
\* that succeeded and listed nothing; a list request that failed is followed
\* by no creation and is reported in error.
C26_CreateOnlyAfterEmptyList ==
  \A k \in CallIds :
    ( /\ calls[k].kind = "getConversations" /\ Settled(k)
      /\ calls[k].caller = "initializeConversation"
      /\ calls[k].outcome = "error" )
    => /\ calls[k].after.error # noError
       /\ \A l \in CallIds :
             calls[l].parent = k => calls[l].kind # "createConversation"

\* C27: the answer to an updateCurrentConversation issued on one
\* conversation, handled after the user has switched to another one, leaves
\* that other conversation active.
C27_StaleUpdateKeepsActive ==
  [][ \A k \in CallIds :
        ( /\ calls[k].kind = "updateConversation" /\ Pending(k)
          /\ calls'[k].outcome = "ok"
          /\ currentConversation.id # calls[k].id
          /\ \E j \in CallIds :
                /\ j > k /\ IsSwitch(j) /\ calls[j].caller = "ui"
                /\ calls[j].outcome = "ok"
                /\ calls[j].id = currentConversation.id )
        => currentConversation'.id = currentConversation.id ]_vars

\* C28: the New Chat button pressed while a switchConversation(X) the user
\* asked for is in flight: once both have ended, whichever was answered
\* first, the conversation created is the active one.
C28_CreateDuringSwitch ==
  \A x \in CallIds :
    LET c == x + 1
    IN ( /\ Quiet /\ Len(calls) = c + 1
         /\ IsSwitch(x) /\ calls[x].caller = "ui"
         /\ calls[x].outcome \in {"ok", "superseded"}
         \* everything before x had ended when x was called, and x was still
         \* in flight when the button was pressed
         /\ \A j \in 1..(x - 1) : calls[j].alone
         /\ ~calls[x].alone
         /\ calls[c].kind = "createConversation"
         /\ calls[c].caller = "handleNewConversation"
         /\ calls[c].outcome = "ok"
         /\ calls[c + 1].parent = c /\ calls[c + 1].outcome = "ok" )
       => currentConversation.id = calls[c].id

\* C30: in every state the messages shown hold at most one
\* 'typing-indicator' entry.
C30_OneTypingIndicator ==
  Cardinality({i \in 1..Len(messages) : messages[i].id = typingId}) <= 1

\* ------------------------------- claims about createNewConversation(text)
\* C25: createNewConversation(initialMessage) that has run to its end has
\* issued exactly one sendMessage request with the initial message for the
\* conversation it created.
C25_InitialMessageSentOnce ==
  \A c, l \in CallIds :
    ( /\ calls[c].kind = "createConversation" /\ calls[c].content # ""
      /\ calls[l].kind = "sendMessage"
      /\ calls[l].caller = "createNewConversation"
      /\ calls[l].id = calls[c].id /\ Settled(l) )
    => Cardinality({j \in CallIds :
                      /\ calls[j].kind = "sendMessage"
                      /\ calls[j].id = calls[c].id
                      /\ calls[j].content = calls[c].content}) = 1

\* -------------------------------------------- claims about the archive filter
\* C29: toggleShowArchived flips showArchived and runs the initialization
\* again for the new value; once every request has been answered, the list
\* is the one the server holds for the current showArchived (with, in
\* front, what initialization created), not the one for the former value.
C29_ListFollowsFilter ==
  ( /\ Quiet /\ toggles >= 1
    /\ \A k \in CallIds : calls[k].outcome = "ok" )
  => \A i \in 1..Len(conversations) :
        \/ conversations[i].is_archived = showArchived
        \/ \E k \in CallIds : /\ calls[k].kind = "createConversation"
                               /\ calls[k].id = conversations[i].id

\* ------------------------------------------------- claims about getMessages
Returned == getMessages_result.st = "returned"
Value == getMessages_result.value
\* the messages of the pages fetched with response.ok
FetchedOk ==
  LET last == IF getMessages_result.failedAt = 0 THEN Len(pages)
              ELSE getMessages_result.failedAt - 1
  IN UNION { {pages[p][i] : i \in 1..Len(pages[p])} : p \in 1..last }

\* C12: the array getMessages returns holds the messages of every page
\* fetched, ascending by created_at, and no message twice.
C12_SortedNoDuplicates ==
  Returned =>
    /\ {Value[i] : i \in 1..Len(Value)} = FetchedOk
    /\ \A i, j \in 1..Len(Value) :
          i < j => /\ Value[i].created_at <= Value[j].created_at
                   /\ Value[i].id # Value[j].id

\* C13: when a page request fails after at least one page was fetched, the
\* caller receives the messages fetched so far and is told of the failure.
C13_PartialKeptAndSurfaced ==
  (getMessages_result.st \in {"returned", "threw"}
     /\ getMessages_result.failedAt > 1)
  => /\ {Value[i] : i \in 1..Len(Value)} = FetchedOk
     /\ getMessages_result.st = "threw"

====
